---- MODULE Spec2Model ----
(***************************************************************************)
(* Model of backend/logic.py of options-pricer: calculate_option_prices,   *)
(* with safe_float, rows_for_expiration, get_current_price,                *)
(* get_risk_free_rate, implied_vol/bs_price and the binomial lattice.      *)
(*                                                                         *)
(* Numbers.  A Python float is modelled by an exact rational <<n, d>>,     *)
(* d > 0, in lowest terms; Python None by the empty tuple.  Log-space      *)
(* quantities (sigma*sqrt(dt), r*dt) are counted in whole ticks of ln 2,   *)
(* so that np.exp is the exact power of two Exp2.  Time is counted in      *)
(* days in the lattice (dt is a fraction of a day-step) and in years in    *)
(* the rate curve (T = delta_days / 365); volatilities are ticks per       *)
(* square-root step and yields are ticks per step times 365.               *)
(***************************************************************************)
EXTENDS Integers, Sequences, FiniteSets, TLC

\* ------------------------------------------------------------------ bounds
\* Longest option chain (rows of one expiration) fed to the pricer.
MaxQuotes == 2
\* Floor of the lattice step count; the source's floor is 100 steps.
MinSteps == 2

\* ------------------------------------------------------- exact rationals
None == <<>>
\* float('nan'), np.nan
NaN == <<0, 0>>

Abs(x) == IF x < 0 THEN -x ELSE x

RECURSIVE GCD(_, _)
GCD(a, b) == IF b = 0 THEN a ELSE GCD(b, a % b)

\* n/d in lowest terms with a positive denominator (d # 0)
Norm(n, d) ==
    LET g == GCD(Abs(n), Abs(d))
        s == IF d < 0 THEN -1 ELSE 1
    IN  <<(s * n) \div g, (s * d) \div g>>

Rat(k) == <<k, 1>>
Zero == Rat(0)

RAdd(x, y) ==
    LET g == GCD(x[2], y[2])
    IN  Norm(x[1] * (y[2] \div g) + y[1] * (x[2] \div g), x[2] * (y[2] \div g))
RNeg(x) == <<-x[1], x[2]>>
RSub(x, y) == RAdd(x, RNeg(y))
RMul(x, y) ==
    LET a == Norm(x[1], y[2])
        b == Norm(y[1], x[2])
    IN  Norm(a[1] * b[1], a[2] * b[2])
\* y # 0
RDiv(x, y) == RMul(x, Norm(y[2], y[1]))
RLt(x, y) == RSub(x, y)[1] < 0
RLe(x, y) == RSub(x, y)[1] <= 0
RMax(x, y) == IF RLt(x, y) THEN y ELSE x
RMin(x, y) == IF RLt(x, y) THEN x ELSE y
RSign(x) == IF x[1] < 0 THEN -1 ELSE IF x[1] = 0 THEN 0 ELSE 1

RECURSIVE Pow(_, _)
Pow(b, k) == IF k = 0 THEN 1 ELSE b * Pow(b, k - 1)

\* np.exp of a whole number of ticks: 2^k, also for negative k
Exp2(k) == IF k >= 0 THEN <<Pow(2, k), 1>> ELSE <<1, Pow(2, -k)>>

\* int(x) of a non-negative float
Floor(x) == x[1] \div x[2]

\* ------------------------------------------------------------ safe_float
\* A raw JSON field: absent/null, or a string given as its characters.
Absent == [kind |-> "none", chars |-> <<>>]
Str(s) == [kind |-> "str", chars |-> s]

Digits == <<"0", "1", "2", "3", "4", "5", "6", "7", "8", "9">>
DigitSet == {Digits[i] : i \in 1..10}
DigitVal(c) == (CHOOSE i \in 1..10 : Digits[i] = c) - 1

RECURSIVE StripLeft(_)
StripLeft(s) ==
    IF s # <<>> /\ Head(s) = " " THEN StripLeft(Tail(s)) ELSE s
RECURSIVE StripRight(_)
StripRight(s) ==
    IF s # <<>> /\ s[Len(s)] = " " THEN StripRight(SubSeq(s, 1, Len(s) - 1)) ELSE s
\* str.strip()
Strip(s) == StripRight(StripLeft(s))

KeepChar(c) == c \notin {",", "$"}
\* value.replace(',', '').replace('$', '')
RemoveSeparators(s) == SelectSeq(s, KeepChar)

IsDigit(c) == c \in DigitSet
IsDot(c) == c = "."
\* float(str) succeeds on [sign] digits [. digits] with at least one digit,
\* and on [sign] "nan" in any case
Unsigned(s) == IF s # <<>> /\ Head(s) \in {"-", "+"} THEN Tail(s) ELSE s
IsNaNLiteral(s) ==
    LET b == Unsigned(s)
    IN  /\ Len(b) = 3
        /\ b[1] \in {"n", "N"} /\ b[2] \in {"a", "A"} /\ b[3] \in {"n", "N"}
ParsesAsFloat(s) ==
    LET b == Unsigned(s)
    IN  \/ IsNaNLiteral(s)
        \/ /\ \A i \in 1..Len(b) : IsDigit(b[i]) \/ IsDot(b[i])
           /\ Len(SelectSeq(b, IsDot)) <= 1
           /\ Len(SelectSeq(b, IsDigit)) >= 1

RECURSIVE DigitsValue(_)
DigitsValue(s) ==
    IF s = <<>> THEN 0
    ELSE 10 * DigitsValue(SubSeq(s, 1, Len(s) - 1)) + DigitVal(s[Len(s)])

\* number of digits after the decimal point
Decimals(b) ==
    IF \E i \in 1..Len(b) : IsDot(b[i])
    THEN Len(b) - (CHOOSE i \in 1..Len(b) : IsDot(b[i]))
    ELSE 0

FloatOf(s) ==
    LET b == Unsigned(s)
        m == Norm(DigitsValue(SelectSeq(b, IsDigit)), Pow(10, Decimals(b)))
    IN  IF IsNaNLiteral(s) THEN NaN
        ELSE IF s # <<>> /\ Head(s) = "-" THEN RNeg(m) ELSE m

safe_float(value) ==
    IF value.kind = "none" THEN None
    ELSE LET v == Strip(value.chars)
         IN  IF v = <<>> \/ v = <<"-", "-">> THEN None
             ELSE LET w == RemoveSeparators(v)
                  IN  IF ParsesAsFloat(w) THEN FloatOf(w) ELSE None

\* -------------------------------------------------- get_risk_free_rate
DaysPerYear == 365
DEFAULT_RISK_FREE == <<3, 100>>

\* maturities of yield_sources (^IRX, ^FVX, ^TNX, ^TYX), in dict order
YieldTerms == <<(<<1, 4>>), Rat(5), Rat(10), Rat(30)>>

\* outcome of one chart request: it raised, or its regularMarketPrice
\* (None when the field is missing)
FetchFailed == <<0>>

fetch_yield_from_yahoo(meta) ==
    IF meta = FetchFailed THEN None
    ELSE IF meta = None THEN None
    ELSE RDiv(meta, Rat(100))

\* an interpolation that extends the nearest segment beyond the end points
\* instead of holding the end values
InterpExtended(x, xp, fp) ==
    LET n == Len(xp)
        i == IF n = 1 THEN 1
             ELSE IF RLe(x, xp[1]) THEN 1
             ELSE IF RLe(xp[n], x) THEN n - 1
             ELSE CHOOSE k \in 1..(n - 1) : RLe(xp[k], x) /\ RLt(x, xp[k + 1])
    IN  IF n = 1 THEN fp[1]
        ELSE RAdd(fp[i], RDiv(RMul(RSub(x, xp[i]), RSub(fp[i + 1], fp[i])),
                              RSub(xp[i + 1], xp[i])))

\* np.interp(x, xp, fp) for increasing xp
Interp(x, xp, fp) ==
    LET n == Len(xp)
    IN  IF RLe(x, xp[1]) THEN fp[1]
        ELSE IF RLe(xp[n], x) THEN fp[n]
        ELSE LET i == CHOOSE k \in 1..(n - 1) : RLe(xp[k], x) /\ RLt(x, xp[k + 1])
             IN  RAdd(fp[i], RDiv(RMul(RSub(x, xp[i]), RSub(fp[i + 1], fp[i])),
                                  RSub(xp[i + 1], xp[i])))

\* the indices of yield_sources whose fetch gave a rate, in loop order
RECURSIVE Surviving(_, _)
Surviving(metas, k) ==
    IF k > Len(metas) THEN <<>>
    ELSE IF fetch_yield_from_yahoo(metas[k]) # None
         THEN <<k>> \o Surviving(metas, k + 1)
         ELSE Surviving(metas, k + 1)

get_risk_free_rate(T, metas) ==
    LET idx == Surviving(metas, 1)
        term_points == [k \in 1..Len(idx) |-> YieldTerms[idx[k]]]
        rates == [k \in 1..Len(idx) |-> fetch_yield_from_yahoo(metas[idx[k]])]
    IN  IF idx = <<>> THEN DEFAULT_RISK_FREE
        ELSE Interp(T, term_points, rates)

\* ----------------------------------------------- bs_price / implied_vol
\* float rounded to the nearest whole number of ticks
Round(x) == Floor(RAdd(x, <<1, 2>>))
\* np.exp(x), x in ticks
Exp(x) == Exp2(Round(x))

\* brentq's bracket [1e-6, 5.0] on the volatility grid
SigmaBracket == <<1, 2>>
SigmaGrid == SigmaBracket[1]..SigmaBracket[2]

\* The closed-form price on the volatility grid.  At the lower bracket the
\* float evaluation is the discounted intrinsic value (norm.cdf saturates at
\* 0 or 1); the price increases with sigma toward S (call) or K*exp(-r*T)
\* (put), which it does not reach at the upper bracket.  log(S/K) needs
\* K # 0 (S / K on Python floats); where the price is nan (K nan, S/K < 0) brentq
\* raises ValueError.
bs_price(S, K, T, r, sigma, option_type) ==
    LET disc == RMul(K, Exp(RNeg(RMul(r, T))))
        low == IF option_type = "call" THEN RMax(RSub(S, disc), Zero)
               ELSE RMax(RSub(disc, S), Zero)
        high == IF option_type = "call" THEN S ELSE disc
        w == <<sigma - SigmaBracket[1], SigmaBracket[2] - SigmaBracket[1] + 1>>
    IN  RAdd(low, RMul(RSub(high, low), Norm(w[1], w[2])))

\* brentq(f, a, b) on the grid: an end point where f vanishes is returned,
\* equal signs at the end points raise ValueError, otherwise the root
brentq_status(fa, fb) ==
    IF RSign(fa) = 0 \/ RSign(fb) = 0 THEN "ok"
    ELSE IF RSign(fa) = RSign(fb) THEN "ValueError"
    ELSE "ok"

implied_vol(S, K, T, r, market_price, option_type) ==
    IF K = NaN THEN [status |-> "ValueError", sigma |-> 0]
    ELSE IF K = Zero THEN [status |-> "ZeroDivisionError", sigma |-> 0]
    ELSE IF RSign(S) * RSign(K) < 0 THEN [status |-> "ValueError", sigma |-> 0]
    ELSE LET f(sigma) == RSub(bs_price(S, K, T, r, sigma, option_type), market_price)
             fa == f(SigmaBracket[1])
             fb == f(SigmaBracket[2])
         IN  IF brentq_status(fa, fb) # "ok"
             THEN [status |-> "ValueError", sigma |-> 0]
             ELSE IF RSign(fa) = 0 THEN [status |-> "ok", sigma |-> SigmaBracket[1]]
             ELSE IF RSign(fb) = 0 THEN [status |-> "ok", sigma |-> SigmaBracket[2]]
             ELSE [status |-> "ok",
                   sigma |-> CHOOSE s \in SigmaGrid :
                               /\ RSign(f(s)) >= 0
                               /\ \A t \in SigmaGrid : RSign(f(t)) >= 0 => s <= t]

\* ------------------------------------------------------ binomial lattice
Max(a, b) == IF a > b THEN a ELSE b

ISqrt(n) == CHOOSE k \in 0..n : k * k <= n /\ n < (k + 1) * (k + 1)
\* np.sqrt: exact on ratios of squares, else the ratio of the integer roots
Sqrt(x) == Norm(ISqrt(x[1]), ISqrt(x[2]))

\* N = max(100, int(T * 365))
Steps(T) == Max(MinSteps, Floor(RMul(T, Rat(DaysPerYear))))

\* sigma * np.sqrt(dt) in ticks; sigma is carried in ticks per square-root day
VolStep(sigma, dt) == Round(RMul(Rat(sigma), Sqrt(RMul(Rat(DaysPerYear), dt))))

\* exp(log(S0) + j*log(u) + (i - j)*log(d)) with log(d) = -log(u)
NodePrice(S0, logu, i, j) == RMul(S0, Exp2(j * logu - (i - j) * logu))

Payoff(S, K, option_type) ==
    IF option_type = "call" THEN RSub(S, K) ELSE RSub(K, S)

\* one step of the backward induction, from layer i+1 (i+2 values) to layer i
RollBack(v, i, S0, K, logu, p, R, option_type) ==
    <<>> \o [j \in 1..(i + 1) |->
        RMax(RDiv(RAdd(RMul(p, v[j + 1]), RMul(RSub(Rat(1), p), v[j])), R),
             Payoff(NodePrice(S0, logu, i, j - 1), K, option_type))]

\* option_values after the steps N-1 .. i of the loop (layer N: the payoffs)
RECURSIVE Layer(_, _, _, _, _, _, _, _)
Layer(i, N, S0, K, logu, p, R, option_type) ==
    IF i = N
    THEN [j \in 1..(N + 1) |->
            RMax(Payoff(NodePrice(S0, logu, N, j - 1), K, option_type), Zero)]
    ELSE CHOOSE w \in
            { RollBack(v, i, S0, K, logu, p, R, option_type) :
                v \in {Layer(i + 1, N, S0, K, logu, p, R, option_type)} } : TRUE

\* risk-neutral up-probability p = (R - d) / (u - d)
UpProbability(T, r, sigma) ==
    LET N == Steps(T)
        dt == RDiv(T, Rat(N))
        u == Exp2(VolStep(sigma, dt))
        d == RDiv(Rat(1), u)
        R == Exp(RMul(r, dt))
    IN  RDiv(RSub(R, d), RSub(u, d))

\* option_values[0] after the loop over i = N-1 .. 0
LatticeValue(S0, K, T, r, sigma, option_type) ==
    LET N == Steps(T)
        dt == RDiv(T, Rat(N))
        logu == VolStep(sigma, dt)
        R == Exp(RMul(r, dt))
        p == UpProbability(T, r, sigma)
    IN  Layer(0, N, S0, K, logu, p, R, option_type)[1]

\* ------------------------------------------------------------ DataFrame
\* np.nan
\* pd.isna
IsNA(x) == x = None \/ x = NaN

Columns == {"strike", "bid", "ask", "impliedVolatility", "lastPrice"}

\* pd.DataFrame(records): a column holding at least one float becomes a float
\* column, its None entries NaN; a column of None alone stays an object
\* column of None
DataFrame(recs) ==
    [i \in 1..Len(recs) |->
        [c \in Columns |->
            IF recs[i][c] = None /\ \E j \in 1..Len(recs) : recs[j][c] # None
            THEN NaN ELSE recs[i][c]]]

AnyQuote(row) == ~(IsNA(row["bid"]) /\ IsNA(row["ask"]))
\* df.dropna(subset=['bid', 'ask'], how='all')
DropNA(df) == SelectSeq(df, AnyQuote)

\* get_yahoo_iv(options_df, strike)
get_yahoo_iv(df, strike) ==
    LET hit == {i \in 1..Len(df) : strike # NaN /\ df[i]["strike"] = strike}
    IN  IF hit = {} THEN None
        ELSE LET first == CHOOSE i \in hit : \A j \in hit : i <= j
                 iv == df[first]["impliedVolatility"]
             IN  IF iv # None /\ iv # NaN /\ RLt(<<1, 1000>>, iv) THEN iv ELSE None

\* ----------------------------------------------------------- the inputs
C(s) == Str(s)
Entry(strike, cb, ca, cl, pb, pa, pl) ==
    [strike |-> strike, c_Bid |-> cb, c_Ask |-> ca, c_Last |-> cl,
     p_Bid |-> pb, p_Ask |-> pa, p_Last |-> pl]

Dashes == C(<<"-", "-">>)
Empty == C(<<>>)
NA == C(<<"N", "/", "A">>)
One == C(<<"1">>)
ZeroStr == C(<<"0">>)

\* rows the Nasdaq option-chain API can return for one expiration
QuotePool ==
    { Entry(C(<<"8", ".", "0">>), One, C(<<"3">>), C(<<"2">>), One, C(<<"2">>), Dashes),
      Entry(C(<<"6">>), C(<<"$", "2", ".", "5", "0">>), Dashes, Empty,
            ZeroStr, ZeroStr, One),
      Entry(C(<<"1", "2">>), ZeroStr, ZeroStr, ZeroStr, Dashes, C(<<"5">>), NA),
      Entry(ZeroStr, One, One, One, One, One, One),
      Entry(Absent, One, One, One, One, One, One),
      Entry(NA, One, One, One, One, One, One),
      Entry(C(<<"N", "a", "N">>), One, One, One, One, One, One),
      Entry(C(<<"8">>), Dashes, Empty, C(<<"2">>), Absent, Absent, Absent),
      Entry(C(<<"6">>), C(<<".", "5">>), C(<<".", "5">>), One,
            C(<<" ", "1", " ">>), C(<<"1", ".", "0">>), C(<<"2">>)) }

RECURSIVE SeqsUpTo(_, _)
SeqsUpTo(S, n) ==
    IF n = 0 THEN {<<>>}
    ELSE LET shorter == SeqsUpTo(S, n - 1)
         IN  shorter \cup {Append(q, e) : q \in shorter, e \in S}

\* <<price parsed from Nasdaq lastTrade, Yahoo regularMarketPrice>>
SpotSources == {<<Rat(8), None>>, <<None, Rat(0)>>, <<None, None>>}

\* (expiration_date - today).days
MaturityDays == {-1, 0, 1, MinSteps + 1}

\* chart answers for ^IRX, ^FVX, ^TNX, ^TYX
MainYieldMetas ==
    { <<FetchFailed, None, FetchFailed, None>>,
      <<Rat(73000), None, None, Rat(0)>>,
      <<FetchFailed, Rat(-73000), None, FetchFailed>> }

OptionTypes == {"call", "put"}

\* ------------------------------------------------------------- the state
VARIABLES
    rows,          \* nasdaq_rows of the requested expiration
    spot,          \* the two price sources of get_current_price
    delta_days,    \* days from today to the expiration
    metas,         \* the four yield-chart answers
    option_type,
    pc,            \* position in calculate_option_prices
    S0, T, r,
    contracts, records, df, results,
    k,             \* index of the next element of the running loop
    error          \* the exception that left the call, "" when none

vars == <<rows, spot, delta_days, metas, option_type, pc, S0, T, r,
          contracts, records, df, results, k, error>>

inputs == <<rows, spot, delta_days, metas, option_type>>

Init ==
    /\ rows \in SeqsUpTo(QuotePool, MaxQuotes)
    /\ spot \in SpotSources
    /\ delta_days \in MaturityDays
    /\ metas \in MainYieldMetas
    /\ option_type \in OptionTypes
    /\ pc = "rows"
    /\ S0 = None /\ T = None /\ r = None
    /\ contracts = <<>> /\ records = <<>> /\ df = <<>> /\ results = <<>>
    /\ k = 0
    /\ error = ""

Raise(e) ==
    /\ pc' = "raised"
    /\ error' = e

\* nasdaq_option_rows: no rows raises
NasdaqOptionRows ==
    /\ pc = "rows"
    /\ IF rows = <<>>
       THEN Raise("ValueError: no option rows")
       ELSE pc' = "spot" /\ UNCHANGED error
    /\ UNCHANGED <<inputs, S0, T, r, contracts, records, df, results, k>>

\* get_current_price(ticker, nasdaq_data)
get_current_price(src) ==
    IF src[1] # None THEN src[1] ELSE src[2]

GetCurrentPrice ==
    /\ pc = "spot"
    /\ IF get_current_price(spot) = None
       THEN Raise("ValueError: no current price") /\ UNCHANGED S0
       ELSE S0' = get_current_price(spot) /\ pc' = "maturity" /\ UNCHANGED error
    /\ UNCHANGED <<inputs, T, r, contracts, records, df, results, k>>

\* time to maturity: delta_days <= 0 raises, T = delta_days / 365
TimeToMaturity ==
    /\ pc = "maturity"
    /\ IF delta_days <= 0
       THEN Raise("ValueError: expiration not in the future") /\ UNCHANGED T
       ELSE T' = Norm(delta_days, DaysPerYear) /\ pc' = "rate" /\ UNCHANGED error
    /\ UNCHANGED <<inputs, S0, r, contracts, records, df, results, k>>

RiskFreeRate ==
    /\ pc = "rate"
    /\ r' = get_risk_free_rate(T, metas)
    /\ pc' = "contracts"
    /\ UNCHANGED <<inputs, S0, T, contracts, records, df, results, k, error>>

HasStrike(row) ==
    ~(row.strike.kind = "none" \/ row.strike.chars = <<>>
        \/ row.strike.chars = <<"-", "-">>)
\* rows_for_expiration: the rows of the expiration that carry a strike
rows_for_expiration(rs) == SelectSeq(rs, HasStrike)

SelectContracts ==
    /\ pc = "contracts"
    /\ contracts' = rows_for_expiration(rows)
    /\ IF contracts' = <<>>
       THEN Raise("ValueError: no option contracts") /\ UNCHANGED k
       ELSE pc' = "normalize" /\ k' = 1 /\ UNCHANGED error
    /\ UNCHANGED <<inputs, S0, T, r, records, df, results>>

\* the body of `for entry in contracts`: the record appended for entry, or
\* None when the entry is skipped
Normalize(entry, side) ==
    LET strike == safe_float(entry.strike)
        bid == safe_float(IF side = "call" THEN entry.c_Bid ELSE entry.p_Bid)
        ask == safe_float(IF side = "call" THEN entry.c_Ask ELSE entry.p_Ask)
        last_px == safe_float(IF side = "call" THEN entry.c_Last ELSE entry.p_Last)
    IN  IF strike = None THEN None
        ELSE IF bid = None /\ ask = None THEN None
        ELSE [c \in Columns |->
                CASE c = "strike" -> strike
                  [] c = "bid" -> bid
                  [] c = "ask" -> ask
                  [] c = "impliedVolatility" -> NaN
                  [] c = "lastPrice" -> last_px]

NormalizeEntry ==
    /\ pc = "normalize"
    /\ k <= Len(contracts)
    /\ LET rec == Normalize(contracts[k], option_type)
       IN  records' = IF rec = None THEN records ELSE Append(records, rec)
    /\ k' = k + 1
    /\ UNCHANGED <<inputs, pc, S0, T, r, contracts, df, results, error>>

\* `if not records: raise`, then the DataFrame and dropna
BuildFrame ==
    /\ pc = "normalize"
    /\ k > Len(contracts)
    /\ IF records = <<>>
       THEN Raise("ValueError: no usable contracts") /\ UNCHANGED <<df, k>>
       ELSE /\ df' = DropNA(DataFrame(records))
            /\ pc' = "price"
            /\ k' = 1
            /\ UNCHANGED error
    /\ UNCHANGED <<inputs, S0, T, r, contracts, records, results>>

\* a fill that takes a missing side as 0.0 instead of the present side
FillQuoteWithZero(bid, ask) ==
    <<IF IsNA(bid) THEN Zero ELSE bid, IF IsNA(ask) THEN Zero ELSE ask>>

\* `if bid_nan: bid = float(ask)`, `if ask_nan: ask = float(bid)`
FillQuote(bid, ask) ==
    LET b == IF IsNA(bid) THEN ask ELSE bid
        a == IF IsNA(ask) THEN b ELSE ask
    IN  <<b, a>>

\* market_price = (bid + ask) / 2
MidPrice(bid, ask) == RDiv(RAdd(bid, ask), Rat(2))

\* a percentage difference taken relative to the last price instead of the
\* American value
PctDiffOfLast(last, value) ==
    IF last # NaN /\ RLt(Zero, last) /\ RLt(Zero, value)
    THEN RDiv(RMul(RSub(value, last), Rat(100)), last)
    ELSE None

\* the percentage difference: None unless last and value are both positive
PctDiff(last, value) ==
    IF last # NaN /\ RLt(Zero, last) /\ RLt(Zero, value)
    THEN RDiv(RMul(RSub(value, last), Rat(100)), value)
    ELSE None

\* a result list built newest row first
PrependResult(res, row) == <<row>> \o res

\* results.append({...})
AppendResult(res, row) == Append(res, row)

\* sigma = get_yahoo_iv(df, K), else implied_vol(...) of the mid price
ResolveVol(row, frame, spot0, mat, rate, side) ==
    CHOOSE solved \in
        { IF yahoo = None
          THEN implied_vol(spot0, row["strike"], mat, rate, mp, side)
          ELSE [status |-> "ok", sigma |-> yahoo] :
            yahoo \in {get_yahoo_iv(frame, row["strike"])},
            mp \in {MidPrice(FillQuote(row["bid"], row["ask"])[1],
                             FillQuote(row["bid"], row["ask"])[2])} } : TRUE

\* the dict appended to results
ResultRow(row, q, sigma, value) ==
    [Strike |-> row["strike"], Bid |-> q[1], Ask |-> q[2],
     Mid |-> MidPrice(q[1], q[2]), ImpliedVol |-> sigma,
     Last |-> IF row["lastPrice"] = NaN THEN None ELSE row["lastPrice"],
     Value |-> value,
     Pct |-> PctDiff(row["lastPrice"], value)]

\* the body of `for idx, row in df.iterrows()`: the row is skipped
\* (continue), a result row is appended, or an exception leaves the loop
PriceOutcome(row, frame, spot0, mat, rate, side) ==
    IF IsNA(row["bid"]) /\ IsNA(row["ask"]) THEN [status |-> "skip"]
    ELSE CHOOSE out \in
        { IF solved.status = "ValueError" THEN [status |-> "skip"]
          ELSE IF solved.status # "ok" THEN [status |-> solved.status]
          \* np.isnan(None) raises TypeError
          ELSE IF row["lastPrice"] = None THEN [status |-> "TypeError"]
          ELSE CHOOSE priced \in
                 { [status |-> "row", row |-> ResultRow(row, q, solved.sigma, value)] :
                     value \in {LatticeValue(spot0, row["strike"], mat, rate,
                                             solved.sigma, side)} } : TRUE :
            solved \in {ResolveVol(row, frame, spot0, mat, rate, side)},
            q \in {FillQuote(row["bid"], row["ask"])} } : TRUE

PriceRow ==
    /\ pc = "price"
    /\ k <= Len(df)
    /\ \E out \in {PriceOutcome(df[k], df, S0, T, r, option_type)} :
           CASE out.status = "skip" ->
                  /\ k' = k + 1
                  /\ UNCHANGED <<pc, results, error>>
             [] out.status = "row" ->
                  /\ results' = AppendResult(results, out.row)
                  /\ k' = k + 1
                  /\ UNCHANGED <<pc, error>>
             [] OTHER ->
                  /\ Raise(out.status)
                  /\ UNCHANGED <<results, k>>
    /\ UNCHANGED <<inputs, S0, T, r, contracts, records, df>>

\* return {"currentPrice": ..., "results": results}
Return ==
    /\ pc = "price"
    /\ k > Len(df)
    /\ pc' = "done"
    /\ UNCHANGED <<inputs, S0, T, r, contracts, records, df, results, k, error>>

Next ==
    \/ NasdaqOptionRows
    \/ GetCurrentPrice
    \/ TimeToMaturity
    \/ RiskFreeRate
    \/ SelectContracts
    \/ NormalizeEntry
    \/ BuildFrame
    \/ PriceRow
    \/ Return

Spec == Init /\ [][Next]_vars

\* ------------------------------------------- the rate curve on its own
\* maturities around and between the anchors, in years
RateMaturities ==
    {<<1, 10>>, <<1, 4>>, Rat(1), Rat(5), Rat(7), Rat(10), Rat(20), Rat(30), Rat(40)}

\* what one chart request can answer: an error, no price, or a close in percent
RateMetas == {FetchFailed, None, Rat(100), Rat(400), Rat(-50)}

InitRate ==
    /\ rows = <<>>
    /\ spot = <<None, None>>
    /\ delta_days = 0
    /\ metas \in [1..4 -> RateMetas]
    /\ option_type = "call"
    /\ pc = "rate"
    /\ S0 = None /\ r = None
    /\ T \in RateMaturities
    /\ contracts = <<>> /\ records = <<>> /\ df = <<>> /\ results = <<>>
    /\ k = 0
    /\ error = ""

NextRate == RiskFreeRate

SpecRate == InitRate /\ [][NextRate]_vars

\* ---------------------------------------------------------------- claims
Done == pc = "done"
Rows == {results[i] : i \in 1..Len(results)}

\* errors that reject the request as a whole
ChainErrors ==
    { "ValueError: no option rows", "ValueError: no current price",
      "ValueError: expiration not in the future",
      "ValueError: no option contracts", "ValueError: no usable contracts" }

\* C1: a call (here: one with a positive spot price) that returns never
\* returns an empty results list: when no quote survives normalization or
\* pricing, it ends in a "no usable data" error instead.
C1_NoEmptySuccess == (Done /\ RLt(Zero, S0)) => results # <<>>

\* C2: no exception raised while one strike is processed leaves the call
\* (here: a call with a positive spot price); the only errors a call ends in
\* are those that reject the whole request.
C2_StrikeFailuresStayLocal ==
    (pc = "raised" /\ S0 # None /\ RLt(Zero, S0)) => error \in ChainErrors

\* C3: with a time to maturity or a spot price that is not strictly
\* positive the call fails as a whole: it never returns and never builds a
\* result row.
C3_PreconditionsEnforced ==
    (delta_days <= 0 \/ (S0 # None /\ RLe(S0, Zero)))
        => (~Done /\ results = <<>>)

\* C4: no result row carries an implied volatility solved from degenerate
\* inputs: in every row spot, strike and mid price are strictly positive.
C4_NoVolForDegenerateInputs ==
    \A row \in Rows :
        RLt(Zero, S0) /\ RLt(Zero, row.Strike) /\ RLt(Zero, row.Mid)

\* C5: in every result row the American value is at least the payoff of
\* immediate exercise at spot and (here: for a positive spot price) is never
\* negative, whatever the up-probability of the lattice.
C5_ValueAtLeastIntrinsic ==
    \A row \in Rows :
        /\ RLt(Zero, S0) => RLe(Zero, row.Value)
        /\ RLe(Payoff(S0, row.Strike, option_type), row.Value)

\* the raw fields of an entry for one option side
RawBid(entry, side) == IF side = "call" THEN entry.c_Bid ELSE entry.p_Bid
RawAsk(entry, side) == IF side = "call" THEN entry.c_Ask ELSE entry.p_Ask
RawLast(entry, side) == IF side = "call" THEN entry.c_Last ELSE entry.p_Last

NotSpace(c) == c # " "
\* the field is absent, empty or the "--" placeholder
Placeholder(raw) ==
    raw.kind = "none" \/ SelectSeq(raw.chars, NotSpace) \in {<<>>, <<"-", "-">>}
\* the field holds text that is no number
NonNumeric(raw) ==
    raw.kind = "str" /\ \E i \in 1..Len(raw.chars) : raw.chars[i] \in {"N", "/", "A", "a"}
Rejected(entry, side) ==
    \/ Placeholder(entry.strike) \/ NonNumeric(entry.strike)
    \/ Placeholder(RawBid(entry, side)) /\ Placeholder(RawAsk(entry, side))

\* the quote a result row shows for an entry: strike, bid, ask (a missing
\* side taken from the other) and last price
QuoteOf(entry, side) ==
    LET b == safe_float(RawBid(entry, side))
        a == safe_float(RawAsk(entry, side))
    IN  <<safe_float(entry.strike),
          IF b = None THEN a ELSE b,
          IF a = None THEN b ELSE a,
          safe_float(RawLast(entry, side))>>
ViewOf(row) == <<row.Strike, row.Bid, row.Ask, row.Last>>

\* the entry is priced: it is not rejected and its implied volatility solves
Priceable(entry, side) ==
    /\ ~Rejected(entry, side)
    /\ LET q == QuoteOf(entry, side)
       IN  implied_vol(S0, q[1], T, r, RDiv(RAdd(q[2], q[3]), Rat(2)), side).status = "ok"

RECURSIVE PriceableViews(_, _)
PriceableViews(rs, side) ==
    IF rs = <<>> THEN <<>>
    ELSE (IF Priceable(Head(rs), side) THEN <<QuoteOf(Head(rs), side)>> ELSE <<>>)
            \o PriceableViews(Tail(rs), side)

RECURSIVE IsSubseq(_, _)
IsSubseq(a, b) ==
    IF a = <<>> THEN TRUE
    ELSE IF b = <<>> THEN FALSE
    ELSE IF Head(a) = Head(b) THEN IsSubseq(Tail(a), Tail(b))
    ELSE IsSubseq(a, Tail(b))

ResultViews == [i \in 1..Len(results) |-> ViewOf(results[i])]
InputViews == [i \in 1..Len(rows) |-> QuoteOf(rows[i], option_type)]

\* C6: the result rows are an order-preserving subsequence of the input
\* quotes: while pricing, the rows built so far appear in input order, one
\* per quote at most; a call that returns holds exactly one row per priceable
\* quote, in input order, equal strikes not merged.
C6_RowsInInputOrder ==
    /\ pc \in {"price", "done"} => IsSubseq(ResultViews, InputViews)
    /\ Done => ResultViews = PriceableViews(rows, option_type)

\* a returned chain with two rows of the same strike
C6_Witness ==
    /\ Done
    /\ Len(results) = 2
    /\ results[1].Strike = results[2].Strike
    /\ results[1].Mid # results[2].Mid

Usable == {i \in 1..Len(rows) : ~Rejected(rows[i], option_type)}

\* C7: a quote whose strike is absent or not a number, or whose bid and ask
\* are both absent or placeholders, gives no record and no result row: every
\* record and every frame row has a strike and a bid or an ask, and there are
\* never more records or result rows than quotes that are not rejected.
C7_RejectedQuotesDropped ==
    /\ \A i \in 1..Len(records) :
          /\ ~IsNA(records[i]["strike"])
          /\ ~(records[i]["bid"] = None /\ records[i]["ask"] = None)
    /\ \A i \in 1..Len(df) :
          /\ ~IsNA(df[i]["strike"])
          /\ ~(IsNA(df[i]["bid"]) /\ IsNA(df[i]["ask"]))
    /\ Len(records) <= Cardinality(Usable)
    /\ Len(results) <= Cardinality(Usable)

\* C8: every result row has Mid = (Bid + Ask) / 2 and shows the quote of an
\* input entry in which a missing side is the present side, never zero; a row
\* of a one-sided quote has Bid = Ask = Mid = the present value.
C8_MissingSideSynthesized ==
    \A row \in Rows :
          /\ row.Mid = RDiv(RAdd(row.Bid, row.Ask), Rat(2))
          /\ \E i \in 1..Len(rows) : ViewOf(row) = QuoteOf(rows[i], option_type)
          /\ row.Bid # None /\ row.Ask # None

\* a returned row of a quote with a bid of $2.50 and no ask
C8_Witness ==
    /\ Done
    /\ option_type = "call"
    /\ \E row \in Rows :
          /\ row.Bid = <<5, 2>> /\ row.Ask = <<5, 2>> /\ row.Mid = <<5, 2>>
          /\ \E i \in 1..Len(rows) :
                /\ ViewOf(row) = QuoteOf(rows[i], option_type)
                /\ Placeholder(rows[i].c_Ask)

\* C9: a row has a percentage difference exactly when its last price is
\* present and positive and its American value is positive; it then is
\* (value - last) * 100 / value, and it is null otherwise.
C9_PercentDifference ==
    \A row \in Rows :
        LET defined == row.Last # None /\ RLt(Zero, row.Last) /\ RLt(Zero, row.Value)
        IN  /\ defined <=> row.Pct # None
            /\ defined =>
                 RMul(row.Pct, row.Value) = RMul(RSub(row.Value, row.Last), Rat(100))

\* a returned chain with a row that has a percentage difference unequal to 0
\* and a row with a last price but a value that is not positive
C9_Witness ==
    /\ Done
    /\ \E row \in Rows : row.Pct # None /\ row.Pct # Zero /\ row.Last # row.Value
    /\ \E row \in Rows :
          row.Pct = None /\ row.Last # None /\ RLt(Zero, row.Last)

Fetched == {i \in 1..4 : metas[i] # FetchFailed /\ metas[i] # None}
YieldAt(i) == RDiv(metas[i], Rat(100))
Least(S) == CHOOSE i \in S : \A j \in S : i <= j
Greatest(S) == CHOOSE i \in S : \A j \in S : j <= i

\* C10: the rate is 0.03 when no anchor was fetched; otherwise it equals the
\* yield of the shortest (longest) fetched anchor for T at or below (above)
\* it, and lies between the yields of the two fetched anchors that bracket T.
C10_RateBetweenBracketingAnchors ==
    r # None =>
        IF Fetched = {} THEN r = <<3, 100>>
        ELSE LET below == {i \in Fetched : RLe(YieldTerms[i], T)}
                 above == {i \in Fetched : RLe(T, YieldTerms[i])}
             IN  IF below = {} THEN r = YieldAt(Least(Fetched))
                 ELSE IF above = {} THEN r = YieldAt(Greatest(Fetched))
                 ELSE /\ RLe(RMin(YieldAt(Greatest(below)), YieldAt(Least(above))), r)
                      /\ RLe(r, RMax(YieldAt(Greatest(below)), YieldAt(Least(above))))

\* T = 7 years between a fetched 5-year and 30-year anchor, the 10-year
\* anchor missing: the rate is strictly between the two yields
C10_Witness ==
    /\ r # None
    /\ T = Rat(7)
    /\ Fetched = {2, 4}
    /\ RLt(YieldAt(2), r) /\ RLt(r, YieldAt(4))
====
